---- MODULE Spec2Model ----
(***************************************************************************)
(* Media ingestion pipeline of the portal backend:                         *)
(*   backend/media_manager.py    MediaManager (validate, process, upload)  *)
(*   backend/storage_backends.py storage adapters and their factory        *)
(***************************************************************************)
EXTENDS Integers, Sequences, FiniteSets, TLC

\* ------------------------------------------------------------------------
\* Bounds of the model
\* ------------------------------------------------------------------------
MaxUuid == 2      \* uuid4() values drawn over one behaviour
MaxFiles == 2     \* longest list handed to bulk_upload
MaxRequests == 3  \* requests sent over one behaviour

\* Python's None
None == "None"

\* ------------------------------------------------------------------------
\* Configuration (settings.STORAGE_TYPE) and the adapter factory
\* ------------------------------------------------------------------------
\* values the deployment documents ('local','s3','gcs','do') and the two the
\* factory compares against ('aws','gcp')
StorageTypes == {"local", "s3", "do", "gcs", "aws", "gcp"}

Backends == {"Local", "S3", "GCS"}

get_storage_backend(st) ==
    IF st = "aws" THEN "S3"
    ELSE IF st = "gcp" THEN "GCS"
    ELSE "Local"

\* ------------------------------------------------------------------------
\* Uploaded files
\* ------------------------------------------------------------------------
MB == 1024 * 1024
max_file_size == 100 * 1024 * 1024
max_image_width == 4096
max_image_height == 4096
supported_image_extensions == {"jpg", "jpeg", "png", "webp", "bmp"}
supported_video_formats == {"mp4", "mov", "avi", "mkv", "webm"}

\* str.lower() on the extensions used
lower(s) ==
    CASE s = "JPG" -> "jpg"
      [] s = ".JPG" -> ".jpg"
      [] OTHER -> s

\* os.path.splitext(name)[1]: the extension with its dot, '' when there is none
splitext(name) == IF name.ext = "" THEN "" ELSE "." \o name.ext

\* the file name as one string
NameStr(name) == name.stem \o splitext(name)

\* mimetypes.guess_type(name)[0], by (case-insensitive) extension
guess_type(name) ==
    LET e == lower(name.ext) IN
    CASE e \in {"jpg", "jpeg"} -> "image/jpeg"
      [] e = "png" -> "image/png"
      [] e = "gif" -> "image/gif"
      [] e = "mp4" -> "video/mp4"
      [] e = "exe" -> "application/x-msdownload"
      [] OTHER -> None

\* mime_type and mime_type.startswith(prefix); a None mime type is falsy
startswith_image(m) == m \in {"image/jpeg", "image/png", "image/gif"}
startswith_video(m) == m \in {"video/mp4"}

\* content of a file as PIL sees it:
\*   "ok"         header and pixel data decode
\*   "header_bad" Image.open raises
\*   "truncated"  Image.open reads the header, loading the pixels raises
\*   "na"         not image data
Decodes == {"ok", "header_bad", "truncated", "na"}

\* a file whose name attribute is None has stem = ext = None
File(stem, ext, size, decode, w, h) ==
    [name |-> [stem |-> stem, ext |-> ext], size |-> size,
     decode |-> decode, width |-> w, height |-> h]

Small == 2 * MB
Big == max_file_size + 1

Files ==
    { File("a", "jpg", Small, "ok", 3000, 2000),
      File("a", "JPG", Small, "truncated", 3000, 2000),
      File("a", "jpg", Small, "header_bad", 0, 0),
      File("a", "jpg", Big, "ok", 3000, 2000),
      File("a", "jpg", Small, "ok", 4097, 2000),
      File("a", "jpg", Big, "ok", 3000, 4097),
      File("a", "gif", Small, "ok", 100, 100),
      File("b", "mp4", Small, "na", 0, 0),
      File("b", "mp4", Big, "na", 0, 0),
      File("b", "exe", Small, "na", 0, 0),
      File("b", "exe", Big, "na", 0, 0),
      File(None, None, Small, "na", 0, 0) }

\* ------------------------------------------------------------------------
\* MediaManager.validate_file
\* ------------------------------------------------------------------------
\* f'{max_file_size / (1024*1024):.1f}MB'
SizeLimitText ==
    ToString(max_file_size \div MB) \o "."
        \o ToString(((max_file_size % MB) * 10) \div MB) \o "MB"

\* faulty variant: the message is appended but is_valid is left true
size_check_noflag(file) ==
    IF file.size > max_file_size
    THEN [is_valid |-> TRUE,
          errors |-> << "File size exceeds maximum limit of " \o SizeLimitText >>]
    ELSE [is_valid |-> TRUE, errors |-> << >>]

\* faulty variant: the limit is compared in the wrong unit
size_check_wrong_unit(file) ==
    IF file.size \div MB > max_file_size
    THEN [is_valid |-> FALSE,
          errors |-> << "File size exceeds maximum limit of " \o SizeLimitText >>]
    ELSE [is_valid |-> TRUE, errors |-> << >>]

\* if file.size > self.max_file_size: ...
size_check(file) ==
    IF file.size > max_file_size
    THEN [is_valid |-> FALSE,
          errors |-> << "File size exceeds maximum limit of " \o SizeLimitText >>]
    ELSE [is_valid |-> TRUE, errors |-> << >>]

\* faulty variant: a file that is neither image nor video is let through
type_check_permissive(file_info) ==
    IF file_info.is_image
    THEN IF file_info.extension \notin supported_image_extensions
         THEN [is_valid |-> FALSE,
               errors |-> << "Unsupported image format: " \o file_info.extension >>]
         ELSE [is_valid |-> TRUE, errors |-> << >>]
    ELSE IF file_info.is_video
    THEN IF file_info.extension \notin supported_video_formats
         THEN [is_valid |-> FALSE,
               errors |-> << "Unsupported video format: " \o file_info.extension >>]
         ELSE [is_valid |-> TRUE, errors |-> << >>]
    ELSE [is_valid |-> TRUE, errors |-> << >>]

\* the if / elif / else on file_info['is_image'] and file_info['is_video']
type_check(file_info) ==
    IF file_info.is_image
    THEN IF file_info.extension \notin supported_image_extensions
         THEN [is_valid |-> FALSE,
               errors |-> << "Unsupported image format: " \o file_info.extension >>]
         ELSE [is_valid |-> TRUE, errors |-> << >>]
    ELSE IF file_info.is_video
    THEN IF file_info.extension \notin supported_video_formats
         THEN [is_valid |-> FALSE,
               errors |-> << "Unsupported video format: " \o file_info.extension >>]
         ELSE [is_valid |-> TRUE, errors |-> << >>]
    ELSE [is_valid |-> FALSE, errors |-> << "File must be an image or video" >>]

DimensionText ==
    "Image dimensions exceed maximum size of "
        \o ToString(max_image_width) \o "x" \o ToString(max_image_height)

\* read cursor of the file: 0 is the start; Image.open reads the header and
\* leaves the cursor past the start
AtStart == 0
PastStart == 1

\* faulty variant: both dimensions must exceed the maximum
image_check_both(file) ==
    IF file.decode \in {"header_bad", "na"}
    THEN [is_valid |-> FALSE,
          errors |-> << "Invalid image file: cannot identify image file" >>,
          opened |-> FALSE, pos |-> PastStart]
    ELSE IF file.width > max_image_width /\ file.height > max_image_height
    THEN [is_valid |-> FALSE, errors |-> << DimensionText >>,
          opened |-> TRUE, pos |-> AtStart]
    ELSE [is_valid |-> TRUE, errors |-> << >>, opened |-> TRUE, pos |-> AtStart]

\* the inner try block: Image.open(file) reads the header only; file.seek(0)
\* is the last statement of the with block; an exception of Image.open goes
\* to the inner handler, which does not seek
image_check(file) ==
    IF file.decode \in {"header_bad", "na"}
    THEN [is_valid |-> FALSE,
          errors |-> << "Invalid image file: cannot identify image file" >>,
          opened |-> FALSE, pos |-> PastStart]
    ELSE IF file.width > max_image_width \/ file.height > max_image_height
    THEN [is_valid |-> FALSE, errors |-> << DimensionText >>,
          opened |-> TRUE, pos |-> AtStart]
    ELSE [is_valid |-> TRUE, errors |-> << >>, opened |-> TRUE, pos |-> AtStart]

\* validation_result['file_info'] = {} until the file info is assigned
EmptyInfo == << >>

\* the body of the outer try block
validate_file_try(file) ==
    LET size == size_check(file)
        file_extension == lower(file.name.ext)
        mime_type == guess_type(file.name)
        info == [name |-> NameStr(file.name), size |-> file.size,
                 extension |-> file_extension, mime_type |-> mime_type,
                 is_image |-> startswith_image(mime_type),
                 is_video |-> startswith_video(mime_type)]
        type == type_check(info)
        inspect == info.is_image /\ size.is_valid /\ type.is_valid
        img == image_check(file)
    IN
    IF file.name.stem = None
    THEN \* os.path.splitext(None) raises TypeError
         [raised |-> TRUE, exc |-> "expected str, bytes or os.PathLike object",
          is_valid |-> size.is_valid, errors |-> size.errors,
          file_info |-> EmptyInfo, pos |-> AtStart]
    ELSE IF inspect
    THEN [raised |-> FALSE, exc |-> None,
          is_valid |-> size.is_valid /\ type.is_valid /\ img.is_valid,
          errors |-> size.errors \o type.errors \o img.errors,
          file_info |-> IF img.opened
                        THEN info @@ [width |-> file.width, height |-> file.height]
                        ELSE info,
          pos |-> img.pos]
    ELSE [raised |-> FALSE, exc |-> None,
          is_valid |-> size.is_valid /\ type.is_valid,
          errors |-> size.errors \o type.errors,
          file_info |-> info, pos |-> AtStart]

\* except Exception as e: is_valid = False, the error is appended
validate_file_except(b) ==
    IF b.raised
    THEN [b EXCEPT !.raised = FALSE, !.is_valid = FALSE,
                   !.errors = Append(@, "File validation error: " \o b.exc)]
    ELSE b

validate_file(file) == validate_file_except(validate_file_try(file))

\* ------------------------------------------------------------------------
\* MediaManager.generate_file_path
\* ------------------------------------------------------------------------
now_year == "2026"
now_month == "11"

\* str(uuid.uuid4()): the n-th value drawn is fresh
uuid4(n) == "uuid" \o ToString(n)

path_parts_stem(name, event_id, file_type, n) ==
    << now_year, now_month >>
        \o (IF event_id # None THEN << event_id >> ELSE << >>)
        \o << file_type, name.stem \o lower(splitext(name)) >>

path_parts_nolower(name, event_id, file_type, n) ==
    << now_year, now_month >>
        \o (IF event_id # None THEN << event_id >> ELSE << >>)
        \o << file_type, uuid4(n) \o splitext(name) >>

path_parts(name, event_id, file_type, n) ==
    << now_year, now_month >>
        \o (IF event_id # None THEN << event_id >> ELSE << >>)
        \o << file_type, uuid4(n) \o lower(splitext(name)) >>

RECURSIVE join(_)
join(parts) ==
    IF parts = << >> THEN ""
    ELSE IF Len(parts) = 1 THEN parts[1]
    ELSE parts[1] \o "/" \o join(Tail(parts))

generate_file_path(name, event_id, file_type, n) ==
    join(path_parts(name, event_id, file_type, n))

\* ------------------------------------------------------------------------
\* MediaManager.process_image
\* ------------------------------------------------------------------------
\* ------------------------------------------------------------------------
\* MediaManager.add_watermark
\* ------------------------------------------------------------------------
\* A decoded image: its size and the watermark drawn on it, if any.
NoMark == [drawn |-> FALSE]
Picture(w, h) == [width |-> w, height |-> h, mark |-> NoMark]

\* What add_watermark meets during one call:
\*   enabled      getattr(settings, 'WATERMARK_ENABLED', False)
\*   truetype     whether ImageFont.truetype('arial.ttf', size) finds the font
\*   text_width,
\*   text_height  the box draw.textbbox measures for the text in that font
\*   fault        "error" when a PIL call inside the try block raises
Watermark(enabled, truetype, tw, th, fault) ==
    [enabled |-> enabled, truetype |-> truetype, text_width |-> tw,
     text_height |-> th, fault |-> fault]

margin == 20

Min(a, b) == IF a < b THEN a ELSE b
Max(a, b) == IF a > b THEN a ELSE b

\* font_size = max(20, min(width, height) // 20)
font_size(image) == Max(20, Min(image.width, image.height) \div 20)

\* the font: arial.ttf at font_size, or ImageFont.load_default(), which
\* takes no size
load_font(image, cfg) ==
    IF cfg.truetype
    THEN [truetype |-> TRUE, size |-> font_size(image)]
    ELSE [truetype |-> FALSE]

\* faulty variant: the margin is added instead of subtracted
text_position_inward(image, cfg) ==
    [x |-> image.width - cfg.text_width + margin,
     y |-> image.height - cfg.text_height + margin]

\* x = width - text_width - margin, y = height - text_height - margin
text_position(image, cfg) ==
    [x |-> image.width - cfg.text_width - margin,
     y |-> image.height - cfg.text_height - margin]

\* the body of the try block
add_watermark_try(image, cfg) ==
    IF cfg.fault # "none"
    THEN [raised |-> TRUE, image |-> image]
    ELSE [raised |-> FALSE,
          image |-> [image EXCEPT !.mark =
                       [drawn |-> TRUE, x |-> text_position(image, cfg).x,
                        y |-> text_position(image, cfg).y,
                        font |-> load_font(image, cfg)]]]

\* faulty variant: the exception is not handled
add_watermark_except_reraise(image, r) == r

\* except Exception: the error is logged and the image passed in is returned
add_watermark_except(image, r) ==
    IF r.raised THEN [raised |-> FALSE, image |-> image] ELSE r

add_watermark(image, cfg) ==
    IF ~cfg.enabled
    THEN [raised |-> FALSE, image |-> image]
    ELSE add_watermark_except(image, add_watermark_try(image, cfg))

\* ------------------------------------------------------------------------
\* MediaManager.process_image
\* ------------------------------------------------------------------------
\* Image.open, the mode conversion (which loads the pixel data),
\* add_watermark and img.convert('RGB'); any exception is re-raised as
\* Exception
process_image(file, cfg) ==
    LET marked == add_watermark(Picture(file.width, file.height), cfg)
    IN
    IF file.decode # "ok"
    THEN [raised |-> TRUE,
          exc |-> "Image processing failed: cannot decode image",
          width |-> 0, height |-> 0, format |-> None,
          processed_image |-> Picture(0, 0)]
    ELSE IF marked.raised
    THEN [raised |-> TRUE,
          exc |-> "Image processing failed: watermark",
          width |-> 0, height |-> 0, format |-> None,
          processed_image |-> Picture(0, 0)]
    ELSE [raised |-> FALSE, exc |-> None, width |-> file.width,
          height |-> file.height, format |-> "JPEG",
          processed_image |-> marked.image]

\* bytes of the JPEG written by processed_image.save(output, 'JPEG', quality=85):
\* the re-encoded length differs from the length of the upload
JpegSize(file) == file.size \div 2

\* ------------------------------------------------------------------------
\* Storage adapters (storage_backends.py)
\* ------------------------------------------------------------------------
\* what the backend client does in one call:
\*   "none"        the call succeeds
\*   "ClientError" it raises botocore.exceptions.ClientError
\*   "OtherError"  it raises any other exception (credentials, connection,
\*                 boto3 S3UploadFailedError, OSError, ...)
Faults == {"none", "ClientError", "OtherError"}

\* the stored objects: a function from path to content
EmptyStore == << >>
Put(store, path, content) == (path :> content) @@ store
Remove(store, path) == [p \in (DOMAIN store) \ {path} |-> store[p]]

S3MediaStorage_upload_file(store, content, file_path, fault) ==
    IF fault = "none"
    THEN [raised |-> FALSE, exc |-> None, value |-> TRUE,
          store |-> Put(store, file_path, content)]
    ELSE IF fault = "ClientError"
    THEN [raised |-> FALSE, exc |-> None, value |-> FALSE, store |-> store]
    ELSE [raised |-> TRUE, exc |-> fault, value |-> FALSE, store |-> store]

GCPMediaStorage_upload_file(store, content, file_path, fault) ==
    IF fault = "none"
    THEN [raised |-> FALSE, exc |-> None, value |-> TRUE,
          store |-> Put(store, file_path, content)]
    ELSE [raised |-> FALSE, exc |-> None, value |-> FALSE, store |-> store]

LocalMediaStorage_upload_file(store, content, file_path, fault) ==
    IF fault = "none"
    THEN [raised |-> FALSE, exc |-> None, value |-> TRUE,
          store |-> Put(store, file_path, content)]
    ELSE [raised |-> FALSE, exc |-> None, value |-> FALSE, store |-> store]

storage_upload_file(backend, store, content, file_path, fault) ==
    CASE backend = "S3" -> S3MediaStorage_upload_file(store, content, file_path, fault)
      [] backend = "GCS" -> GCPMediaStorage_upload_file(store, content, file_path, fault)
      [] OTHER -> LocalMediaStorage_upload_file(store, content, file_path, fault)

S3MediaStorage_get_signed_url(file_path, expiration, fault) ==
    IF fault = "none"
    THEN [raised |-> FALSE, exc |-> None,
          value |-> "https://s3/" \o file_path
                        \o "?X-Amz-Expires=" \o ToString(expiration)]
    ELSE IF fault = "ClientError"
    THEN [raised |-> FALSE, exc |-> None, value |-> None]
    ELSE [raised |-> TRUE, exc |-> fault, value |-> None]

GCPMediaStorage_get_signed_url(file_path, expiration, fault) ==
    IF fault = "none"
    THEN [raised |-> FALSE, exc |-> None,
          value |-> "https://gcs/" \o file_path
                        \o "?X-Goog-Expires=" \o ToString(expiration)]
    ELSE [raised |-> FALSE, exc |-> None, value |-> None]

\* urljoin(settings.MEDIA_URL, file_path): no provider call is made
MEDIA_URL == "/media/"
LocalMediaStorage_get_signed_url(file_path, expiration, fault) ==
    [raised |-> FALSE, exc |-> None, value |-> MEDIA_URL \o file_path]

storage_get_signed_url(backend, file_path, expiration, fault) ==
    CASE backend = "S3" -> S3MediaStorage_get_signed_url(file_path, expiration, fault)
      [] backend = "GCS" -> GCPMediaStorage_get_signed_url(file_path, expiration, fault)
      [] OTHER -> LocalMediaStorage_get_signed_url(file_path, expiration, fault)

\* s3_client.delete_object succeeds whether or not the key exists
S3MediaStorage_delete_file(store, file_path, fault) ==
    IF fault = "none"
    THEN [raised |-> FALSE, exc |-> None, value |-> TRUE,
          store |-> Remove(store, file_path)]
    ELSE IF fault = "ClientError"
    THEN [raised |-> FALSE, exc |-> None, value |-> FALSE, store |-> store]
    ELSE [raised |-> TRUE, exc |-> fault, value |-> FALSE, store |-> store]

\* blob.delete() raises google.cloud.exceptions.NotFound for a missing blob
GCPMediaStorage_delete_file(store, file_path, fault) ==
    IF fault = "none" /\ file_path \in DOMAIN store
    THEN [raised |-> FALSE, exc |-> None, value |-> TRUE,
          store |-> Remove(store, file_path)]
    ELSE [raised |-> FALSE, exc |-> None, value |-> FALSE, store |-> store]

\* os.remove runs only if os.path.exists(full_path)
LocalMediaStorage_delete_file(store, file_path, fault) ==
    IF file_path \in DOMAIN store
    THEN IF fault = "none"
         THEN [raised |-> FALSE, exc |-> None, value |-> TRUE,
               store |-> Remove(store, file_path)]
         ELSE [raised |-> FALSE, exc |-> None, value |-> FALSE, store |-> store]
    ELSE [raised |-> FALSE, exc |-> None, value |-> TRUE, store |-> store]

storage_delete_file(backend, store, file_path, fault) ==
    CASE backend = "S3" -> S3MediaStorage_delete_file(store, file_path, fault)
      [] backend = "GCS" -> GCPMediaStorage_delete_file(store, file_path, fault)
      [] OTHER -> LocalMediaStorage_delete_file(store, file_path, fault)

\* ------------------------------------------------------------------------
\* MediaManager.upload_file
\* ------------------------------------------------------------------------
default_expiration == 3600

\* an adapter method that was not reached
NotCalled == [called |-> FALSE]
Called(r) == [called |-> TRUE, raised |-> r.raised, value |-> r.value]

\* faulty variant: a fixed message instead of the validator's errors
validation_failure_generic(validation) ==
    [success |-> FALSE, errors |-> << "File validation failed" >>]

\* return {'success': False, 'errors': validation['errors']}
validation_failure(validation) ==
    [success |-> FALSE, errors |-> validation.errors]

\* return {'success': False, 'errors': ['Failed to upload file to storage backend']}
upload_failure ==
    [success |-> FALSE, errors |-> << "Failed to upload file to storage backend" >>]

\* faulty variant: every file is processed when process_image is set
needs_processing_any(file_info, do_process) == do_process

\* if file_info['is_image'] and process_image:
needs_processing(file_info, do_process) == file_info.is_image /\ do_process

\* faulty variant: the processed file is built but the original is uploaded
upload_object_original(processing) == "original"

\* upload_file = processed_file (the JPEG bytes) or upload_file = file
upload_object(processing) == IF processing THEN "jpeg" ELSE "original"

\* the body of the try block.  mgr is the manager (its storage_type setting
\* and storage_backend), store the stored objects, n the uuids drawn so far,
\* env the behaviour of the backend client during this call.
upload_file_try(mgr, store, n, file, event_id, file_type, do_process, env) ==
    LET validation == validate_file(file)
        file_info == validation.file_info
        file_path == generate_file_path(file.name, event_id, file_type, n + 1)
        parts == path_parts(file.name, event_id, file_type, n + 1)
        processing == needs_processing(file_info, do_process)
        processed == process_image(file, env.watermark)
        picture == IF processing /\ ~processed.raised
                   THEN processed.processed_image
                   ELSE Picture(0, 0)
        new_info == IF processing
                    THEN [width |-> processed.width, height |-> processed.height,
                          size |-> JpegSize(file)] @@ file_info
                    ELSE file_info
        content == upload_object(processing)
        up == storage_upload_file(mgr.storage_backend, store, content,
                                  file_path, env.upload)
        sign == storage_get_signed_url(mgr.storage_backend, file_path,
                                       default_expiration, env.sign)
        t1 == << "validate_file" >>
        t2 == t1 \o << "generate_file_path" >>
        t3 == IF processing THEN t2 \o << "process_image" >> ELSE t2
        t4 == t3 \o << "storage.upload_file" >>
        t5 == t4 \o << "storage.get_signed_url" >>
        NoResult == [success |-> FALSE, errors |-> << >>]
    IN
    IF ~validation.is_valid
    THEN [raised |-> FALSE, exc |-> None,
          result |-> validation_failure(validation),
          store |-> store, n |-> n, trace |-> t1,
          upload |-> NotCalled, sign |-> NotCalled,
          path_parts |-> << >>, path |-> None, content |-> None, picture |-> Picture(0, 0)]
    ELSE IF processing /\ processed.raised
    THEN [raised |-> TRUE, exc |-> processed.exc, result |-> NoResult,
          store |-> store, n |-> n + 1, trace |-> t3,
          upload |-> NotCalled, sign |-> NotCalled,
          path_parts |-> parts, path |-> file_path, content |-> None, picture |-> picture]
    ELSE IF up.raised
    THEN [raised |-> TRUE, exc |-> up.exc, result |-> NoResult,
          store |-> up.store, n |-> n + 1, trace |-> t4,
          upload |-> Called(up), sign |-> NotCalled,
          path_parts |-> parts, path |-> file_path, content |-> content, picture |-> picture]
    ELSE IF up.value
    THEN IF sign.raised
         THEN [raised |-> TRUE, exc |-> sign.exc, result |-> NoResult,
               store |-> up.store, n |-> n + 1, trace |-> t5,
               upload |-> Called(up), sign |-> Called(sign),
          path_parts |-> parts, path |-> file_path, content |-> content, picture |-> picture]
         ELSE [raised |-> FALSE, exc |-> None,
               result |-> [success |-> TRUE, file_path |-> file_path,
                           file_info |-> new_info, signed_url |-> sign.value,
                           storage_type |-> mgr.storage_type],
               store |-> up.store, n |-> n + 1, trace |-> t5,
               upload |-> Called(up), sign |-> Called(sign),
          path_parts |-> parts, path |-> file_path, content |-> content, picture |-> picture]
    ELSE [raised |-> FALSE, exc |-> None,
          result |-> upload_failure,
          store |-> up.store, n |-> n + 1, trace |-> t4,
          upload |-> Called(up), sign |-> NotCalled,
          path_parts |-> parts, path |-> file_path, content |-> content, picture |-> picture]

\* faulty variant: no outermost handler, the exception reaches the caller
upload_file_except_reraise(b) == b

\* except Exception as e: return {'success': False, 'errors': [f'Upload failed: {e}']}
upload_file_except(b) ==
    IF b.raised
    THEN [b EXCEPT !.raised = FALSE,
                   !.result = [success |-> FALSE,
                               errors |-> << "Upload failed: " \o b.exc >>]]
    ELSE b

upload_file(mgr, store, n, file, event_id, file_type, do_process, env) ==
    upload_file_except(
        upload_file_try(mgr, store, n, file, event_id, file_type, do_process, env))

\* ------------------------------------------------------------------------
\* MediaManager.delete_file, MediaManager.get_signed_url
\* ------------------------------------------------------------------------
delete_file(mgr, store, file_path, fault) ==
    LET r == storage_delete_file(mgr.storage_backend, store, file_path, fault)
    IN [value |-> IF r.raised THEN FALSE ELSE r.value, raised |-> FALSE,
        store |-> r.store, adapter |-> Called(r)]

get_signed_url(mgr, file_path, expiration, fault) ==
    LET r == storage_get_signed_url(mgr.storage_backend, file_path, expiration, fault)
    IN [value |-> IF r.raised THEN None ELSE r.value, raised |-> FALSE,
        adapter |-> Called(r)]

\* ------------------------------------------------------------------------
\* MediaManager.bulk_upload
\* ------------------------------------------------------------------------
EmptyResults ==
    [successful_uploads |-> << >>, failed_uploads |-> << >>,
     total_files |-> 0, success_count |-> 0, error_count |-> 0]

\* faulty variant: a failure is recorded but error_count is not incremented
bulk_upload_step_nocount(results, file, u) ==
    IF u.result.success
    THEN [results EXCEPT
            !.successful_uploads =
                Append(@, [file_name |-> NameStr(file.name),
                           file_path |-> u.result.file_path,
                           file_info |-> u.result.file_info,
                           signed_url |-> u.result.signed_url]),
            !.success_count = @ + 1]
    ELSE [results EXCEPT
            !.failed_uploads =
                Append(@, [file_name |-> NameStr(file.name),
                           errors |-> u.result.errors])]

\* faulty variant: one errors list shared by all failed entries, so an entry
\* also carries the errors of the failures before it
bulk_upload_step_shared_errors(results, file, u) ==
    IF u.result.success
    THEN [results EXCEPT
            !.successful_uploads =
                Append(@, [file_name |-> NameStr(file.name),
                           file_path |-> u.result.file_path,
                           file_info |-> u.result.file_info,
                           signed_url |-> u.result.signed_url]),
            !.success_count = @ + 1]
    ELSE [results EXCEPT
            !.failed_uploads =
                Append(@, [file_name |-> NameStr(file.name),
                           errors |-> (IF @ = << >> THEN << >>
                                       ELSE @[Len(@)].errors) \o u.result.errors]),
            !.error_count = @ + 1]

\* one pass of the for loop; items are the files with the backend client's
\* behaviour during each file's upload
bulk_upload_step(results, file, u) ==
    IF u.result.success
    THEN [results EXCEPT
            !.successful_uploads =
                Append(@, [file_name |-> NameStr(file.name),
                           file_path |-> u.result.file_path,
                           file_info |-> u.result.file_info,
                           signed_url |-> u.result.signed_url]),
            !.success_count = @ + 1]
    ELSE [results EXCEPT
            !.failed_uploads =
                Append(@, [file_name |-> NameStr(file.name),
                           errors |-> u.result.errors]),
            !.error_count = @ + 1]

\* the paths generate_file_path returned during a call
PathsOf(u) == IF u.path = None THEN << >> ELSE << u.path >>

RECURSIVE bulk_upload_loop(_, _, _, _, _, _, _, _)
bulk_upload_loop(mgr, store, n, items, event_id, file_type, results, attempted) ==
    IF items = << >>
    THEN [raised |-> FALSE, results |-> results, store |-> store, n |-> n,
          attempted |-> attempted, generated |-> << >>]
    ELSE LET file == Head(items).file
             u == upload_file(mgr, store, n, file, event_id, file_type, TRUE,
                              Head(items).env)
             rest == bulk_upload_loop(mgr, u.store, u.n, Tail(items), event_id,
                                      file_type, bulk_upload_step(results, file, u),
                                      Append(attempted, NameStr(file.name)))
         IN IF u.raised
            THEN [raised |-> TRUE, results |-> results, store |-> u.store,
                  n |-> u.n, attempted |-> Append(attempted, NameStr(file.name)),
                  generated |-> PathsOf(u)]
            ELSE [rest EXCEPT !.generated = PathsOf(u) \o @]

bulk_upload(mgr, store, n, items, event_id, file_type) ==
    bulk_upload_loop(mgr, store, n, items, event_id, file_type,
                     [EmptyResults EXCEPT !.total_files = Len(items)], << >>)

\* ------------------------------------------------------------------------
\* Database rows (events/models.py) and the media views (media/views.py)
\* ------------------------------------------------------------------------
\* the model fields of Photo and Video, with the implicit primary key
ModelFields(model) ==
    IF model = "photo"
    THEN {"id", "event", "title", "description", "image", "created_at",
          "updated_at", "width", "height", "size", "tags", "is_featured"}
    ELSE {"id", "event", "title", "description", "video", "thumbnail",
          "created_at", "updated_at", "duration", "size", "is_featured"}

\* the table rows: next_id is the next primary key
EmptyDb == [next_id |-> 1, rows |-> {}]
Row(id, model, path, event) ==
    [id |-> id, model |-> model, path |-> path, event |-> event]

\* Model.objects.create(**kwargs): Model.__init__ raises TypeError for a
\* keyword that is not a field; a null event violates the NOT NULL column
objects_create(database, model, kwargs, path) ==
    IF ~(DOMAIN kwargs \subseteq ModelFields(model))
    THEN [raised |-> TRUE, exc |-> "got unexpected keyword arguments",
          db |-> database]
    ELSE IF kwargs.event = None
    THEN [raised |-> TRUE, exc |-> "NOT NULL constraint failed", db |-> database]
    ELSE [raised |-> FALSE, exc |-> None,
          db |-> [next_id |-> database.next_id + 1,
                  rows |-> database.rows
                     \cup { Row(database.next_id, model, path, kwargs.event) }]]

create_media_record(database, file, upload_result, event, file_type, user) ==
    LET file_info == upload_result.file_info
        common_data == [title |-> NameStr(file.name),
                        file_path |-> upload_result.file_path,
                        size |-> file_info.size, event |-> event,
                        uploaded_by |-> user]
    IN IF file_type = "photo" \/ file_info.is_image
       THEN objects_create(database, "photo",
                [image |-> upload_result.file_path,
                 width |-> IF "width" \in DOMAIN file_info THEN file_info.width ELSE 0,
                 height |-> IF "height" \in DOMAIN file_info THEN file_info.height ELSE 0]
                   @@ common_data,
                upload_result.file_path)
       ELSE IF file_type \in {"video", "reel"} \/ file_info.is_video
       THEN objects_create(database, "video",
                [video |-> upload_result.file_path, duration |-> 0] @@ common_data,
                upload_result.file_path)
       ELSE objects_create(database, "photo",
                [image |-> upload_result.file_path] @@ common_data,
                upload_result.file_path)

\* the events that exist; get_object_or_404 raises Http404 for any other id
Events == {"E1", "E2"}

\* next(f for f in files if f.name == file_name, None): the first such file
RECURSIVE original_file(_, _)
original_file(items, file_name) ==
    IF items = << >> THEN [found |-> FALSE]
    ELSE IF NameStr(Head(items).file.name) = file_name
    THEN [found |-> TRUE, file |-> Head(items).file]
    ELSE original_file(Tail(items), file_name)

\* the loop over bulk_result['successful_uploads']
RECURSIVE create_records(_, _, _, _, _, _)
create_records(database, items, successes, event, file_type, user) ==
    IF successes = << >>
    THEN [raised |-> FALSE, exc |-> None, db |-> database]
    ELSE CHOOSE r \in
        { IF ~original.found
          THEN create_records(database, items, Tail(successes), event,
                              file_type, user)
          ELSE CHOOSE q \in
              { IF c.raised THEN c
                ELSE create_records(c.db, items, Tail(successes), event,
                                    file_type, user)
                : c \in { create_media_record(database, original.file,
                              Head(successes), event, file_type, user) } } : TRUE
          : original \in { original_file(items, Head(successes).file_name) } } : TRUE

\* upload_media with one file: upload_file, then create_media_record
upload_media_single(database, req, single) ==
    IF single.raised
    THEN [raised |-> TRUE, exc |-> single.exc, status |-> 0,
          store |-> single.store, n |-> single.n, db |-> database]
    ELSE IF single.result.success
    THEN CHOOSE r \in
        { IF one.raised
          THEN [raised |-> TRUE, exc |-> one.exc, status |-> 0,
                store |-> single.store, n |-> single.n, db |-> one.db]
          ELSE [raised |-> FALSE, exc |-> None, status |-> 201,
                store |-> single.store, n |-> single.n, db |-> one.db]
          : one \in { create_media_record(database, req.files[1].file,
                          single.result, req.event_id, req.file_type,
                          req.user) } } : TRUE
    ELSE [raised |-> FALSE, exc |-> None, status |-> 400,
          store |-> single.store, n |-> single.n, db |-> database]

\* upload_media with several files: bulk_upload, then a record for every
\* successful upload
upload_media_bulk(database, req, bulk) ==
    IF bulk.raised
    THEN [raised |-> TRUE, exc |-> "bulk upload failed", status |-> 0,
          store |-> bulk.store, n |-> bulk.n, db |-> database]
    ELSE CHOOSE r \in
        { IF many.raised
          THEN [raised |-> TRUE, exc |-> many.exc, status |-> 0,
                store |-> bulk.store, n |-> bulk.n, db |-> many.db]
          ELSE [raised |-> FALSE, exc |-> None, status |-> 201,
                store |-> bulk.store, n |-> bulk.n, db |-> many.db]
          : many \in { create_records(database, req.files,
                           bulk.results.successful_uploads, req.event_id,
                           req.file_type, req.user) } } : TRUE

\* upload_media: the body of the try block; request.data gives event_id and
\* file_type, request.FILES the files
upload_media_try(mgr, store, n, database, req) ==
    IF req.event_id # None /\ req.event_id \notin Events
    THEN [raised |-> TRUE, exc |-> "No Event matches the given query.",
          status |-> 0, store |-> store, n |-> n, db |-> database]
    ELSE IF req.files = << >>
    THEN [raised |-> FALSE, exc |-> None, status |-> 400,
          store |-> store, n |-> n, db |-> database]
    ELSE IF Len(req.files) = 1
    THEN CHOOSE r \in
        { upload_media_single(database, req, single)
          : single \in { upload_file(mgr, store, n, req.files[1].file,
                             req.event_id, req.file_type, TRUE,
                             req.files[1].env) } } : TRUE
    ELSE CHOOSE r \in
        { upload_media_bulk(database, req, bulk)
          : bulk \in { bulk_upload(mgr, store, n, req.files, req.event_id,
                                   req.file_type) } } : TRUE

\* except Exception: the response is 500
upload_media_except(b) ==
    IF b.raised THEN [b EXCEPT !.raised = FALSE, !.status = 500] ELSE b

upload_media(mgr, store, n, database, req) ==
    upload_media_except(upload_media_try(mgr, store, n, database, req))

\* get_object_or_404(Photo | Video, id=media_id)
Lookup(database, media_type, media_id) ==
    { r \in database.rows : r.model = media_type /\ r.id = media_id }

\* faulty variant: any event client is let in, whatever the event
has_media_access_any_client(user, event) ==
    IF user.is_staff \/ user.is_superuser THEN TRUE
    ELSE IF user.event_client # None THEN TRUE
    ELSE FALSE

\* hasattr(user, 'event_client') is modelled as event_client # None
has_media_access(user, event) ==
    IF user.is_staff \/ user.is_superuser THEN TRUE
    ELSE IF user.event_client # None THEN user.event_client = event
    ELSE FALSE


\* the part get_signed_url and media_info share: the media object and the
\* permission check; a missing object raises Http404 inside the try block,
\* which the view's except Exception turns into a 500
media_access(database, user, media_type, media_id) ==
    LET found == Lookup(database, media_type, media_id)
        row == CHOOSE r \in found : TRUE
    IN IF media_type \notin {"photo", "video"} THEN [status |-> 400]
       ELSE IF found = {} THEN [status |-> 500]
       ELSE IF row.event = None \/ ~has_media_access(user, row.event)
       THEN [status |-> 403]
       ELSE [status |-> 200, row |-> row]

\* the get_signed_url view
views_get_signed_url(mgr, database, user, media_type, media_id, expiration, fault) ==
    LET a == media_access(database, user, media_type, media_id)
        g == get_signed_url(mgr, a.row.path, expiration, fault)
    IN IF a.status # 200
       THEN [status |-> a.status, signed_url |-> None, signer |-> NotCalled]
       ELSE IF g.value # None
       THEN [status |-> 200, signed_url |-> g.value, signer |-> g.adapter]
       ELSE [status |-> 500, signed_url |-> None, signer |-> g.adapter]

\* the media_info view: the signed URL is added when one was generated
views_media_info(mgr, database, user, media_type, media_id, fault) ==
    LET a == media_access(database, user, media_type, media_id)
        g == get_signed_url(mgr, a.row.path, default_expiration, fault)
    IN IF a.status # 200
       THEN [status |-> a.status, signed_url |-> None, signer |-> NotCalled]
       ELSE [status |-> 200, signed_url |-> g.value, signer |-> g.adapter]

\* the delete_media view, reached by staff users only (IsAdminUser)
views_delete_media(mgr, store, database, user, media_type, media_id, fault) ==
    LET found == Lookup(database, media_type, media_id)
        row == CHOOSE r \in found : TRUE
        d == delete_file(mgr, store, row.path, fault)
        Kept(code) == [status |-> code, file_deleted |-> FALSE, store |-> store,
                       db |-> database, path |-> None]
    IN IF ~user.is_staff THEN Kept(403)
       ELSE IF media_type \notin {"photo", "video"} THEN Kept(400)
       ELSE IF found = {} THEN Kept(500)
       ELSE [status |-> 200, file_deleted |-> d.value, store |-> d.store,
             db |-> [database EXCEPT !.rows = @ \ {row}], path |-> row.path]

\* ------------------------------------------------------------------------
\* SecurityMiddleware (security/middleware.py)
\* ------------------------------------------------------------------------
\* settings of the deployments examined; the code's defaults are 100 requests
\* and 5 failed attempts
RATE_LIMIT_REQUESTS == 2
MAX_FAILED_ATTEMPTS == 2

\* client addresses and the networks of the settings with their members;
\* ip_network raises ValueError for an entry that is no network, the loop
\* continues, and so such an entry has no member
Addresses == {"10.0.0.5", "192.168.1.9"}
Members(network) ==
    CASE network = "10.0.0.0/8" -> {"10.0.0.5"}
      [] network = "10.0.0.5/32" -> {"10.0.0.5"}
      [] network = "192.168.1.0/24" -> {"192.168.1.9"}
      [] OTHER -> {}

\* get_client_ip: the first entry of X-Forwarded-For, else REMOTE_ADDR
get_client_ip(meta) ==
    IF meta.x_forwarded_for # << >> THEN meta.x_forwarded_for[1]
    ELSE meta.remote_addr

\* the loop over a list of networks: TRUE when an entry contains the
\* address; an entry that raises ValueError is skipped
RECURSIVE matches_any(_, _)
matches_any(client_ip, networks) ==
    IF networks = << >> THEN FALSE
    ELSE IF client_ip \in Members(Head(networks))
    THEN TRUE
    ELSE matches_any(client_ip, Tail(networks))

\* faulty variant: the allow list is consulted first
is_ip_allowed_allow_first(blocked, allowed, client_ip) ==
    IF allowed # << >> /\ matches_any(client_ip, allowed) THEN TRUE
    ELSE IF blocked # << >> /\ matches_any(client_ip, blocked) THEN FALSE
    ELSE IF allowed # << >> THEN FALSE
    ELSE TRUE

is_ip_allowed(blocked, allowed, client_ip) ==
    IF blocked # << >> /\ matches_any(client_ip, blocked) THEN FALSE
    ELSE IF allowed # << >> THEN matches_any(client_ip, allowed)
    ELSE TRUE

\* the cache: a function from the keys that are alive to their values
cache_get(c, key, default) == IF key \in DOMAIN c THEN c[key] ELSE default
cache_set(c, key, value) == (key :> value) @@ c
cache_delete(c, key) == [k \in (DOMAIN c) \ {key} |-> c[k]]

rate_limit_key(client_ip) == "rate_limit:" \o client_ip
failed_attempts_key(client_ip) == "failed_attempts:" \o client_ip
locked_key(client_ip) == "locked:" \o client_ip

\* is_account_locked
is_account_locked(c, client_ip) == cache_get(c, locked_key(client_ip), FALSE)

\* track_failed_attempt after current_attempts has been read
track_failed_attempt_write(c, client_ip, current_attempts) ==
    LET new_attempts == current_attempts + 1
        locked == IF new_attempts >= MAX_FAILED_ATTEMPTS
                  THEN cache_set(c, locked_key(client_ip), TRUE)
                  ELSE c
    IN cache_set(locked, failed_attempts_key(client_ip), new_attempts)

\* reset_failed_attempts
reset_failed_attempts(c, client_ip) ==
    cache_delete(cache_delete(c, failed_attempts_key(client_ip)),
                 locked_key(client_ip))

\* worker threads handling requests at the same time
Threads == {1, 2}

\* a request on its way through the middleware: pc is the statement reached,
\* current the counter value read from the cache, status the response
Idle == [pc |-> "idle", client_ip |-> "", is_staff |-> FALSE, path |-> "",
         current |-> 0, status |-> 0]
NoHistory == [arrived |-> 0, admitted |-> [a \in Addresses |-> 0],
              failures |-> [a \in Addresses |-> 0]]

\* request.path.endswith('/login/') or request.path.endswith('/event-login/')
LoginPaths == {"/api/auth/login/", "/api/auth/event-login/"}

\* ------------------------------------------------------------------------
\* State
\* ------------------------------------------------------------------------
VARIABLES
    storage_type,     \* settings.STORAGE_TYPE
    storage_backend,  \* media_manager.storage_backend
    store,            \* objects held by the storage backend, path -> content
    uuid_count,       \* uuid4() values drawn so far
    last,             \* the last call of the manager: arguments and outcome
    generated,        \* history: the paths generate_file_path has returned
    db,               \* the Photo and Video rows of the database
    blocked_ips,      \* settings.BLOCKED_IPS
    allowed_ips,      \* settings.ALLOWED_IPS
    cache,            \* django.core.cache
    requests,         \* the requests being handled, one per worker thread
    history           \* per address: requests admitted and login failures

middleware_vars == << blocked_ips, allowed_ips, cache, requests, history >>

vars == << storage_type, storage_backend, store, uuid_count, last, generated, db,
           middleware_vars >>

media_manager == [storage_type |-> storage_type, storage_backend |-> storage_backend]

\* behaviour of the backend client during one upload_file call; signing is
\* reached only after a successful upload
\* the repository's settings define no WATERMARK_ENABLED: watermarking is off
WatermarkOff == Watermark(FALSE, FALSE, 0, 0, "none")
Env(u, s, w) == [upload |-> u, sign |-> s, watermark |-> w]
EnvOk == Env("none", "none", WatermarkOff)
Envs ==
    { Env(u, "none", WatermarkOff) : u \in Faults }
        \cup { Env("none", s, WatermarkOff) : s \in Faults }

\* a deployment that sets WATERMARK_ENABLED: the text is drawn, drawn in the
\* default font, or a PIL call fails
Watermarks ==
    { Watermark(TRUE, TRUE, 400, 100, "none"),
      Watermark(TRUE, FALSE, 130, 11, "none"),
      Watermark(TRUE, TRUE, 400, 100, "error") }

ValidImage == File("a", "jpg", Small, "ok", 3000, 2000)
TruncatedImage == File("a", "JPG", Small, "truncated", 3000, 2000)
ValidVideo == File("b", "mp4", Small, "na", 0, 0)
NotMedia == File("b", "exe", Small, "na", 0, 0)

Call(file, event_id, file_type, do_process, env) ==
    [file |-> file, event_id |-> event_id, file_type |-> file_type,
     process_image |-> do_process, env |-> env]

\* calls of upload_file: every file with a working backend, the files that
\* reach the backend with every behaviour of the backend, and the optional
\* arguments event_id and process_image
UploadCalls ==
    { Call(f, None, "media", TRUE, EnvOk) : f \in Files }
        \cup { Call(f, None, "media", TRUE, e) : f \in {ValidImage, ValidVideo}, e \in Envs }
        \cup { Call(f, None, "media", FALSE, EnvOk) : f \in {ValidImage, TruncatedImage} }
        \cup { Call(ValidImage, "E1", "media", TRUE, EnvOk) }
        \cup { Call(ValidImage, None, "media", TRUE, Env("none", "none", w))
                  : w \in Watermarks }

\* files handed to bulk_upload with the backend's behaviour during each
BulkItems ==
    { [file |-> ValidImage, env |-> EnvOk],
      [file |-> NotMedia, env |-> EnvOk],
      [file |-> ValidVideo, env |-> Env("OtherError", "none", WatermarkOff)] }

SeqsUpTo(S, k) == UNION { [1..m -> S] : m \in 0..k }

AbsentPath == "2026/11/media/absent.jpg"

Init ==
    /\ storage_type \in StorageTypes
    /\ storage_backend = get_storage_backend(storage_type)
    /\ store = EmptyStore
    /\ uuid_count = 0
    /\ last = [op |-> "init"]
    /\ generated = << >>
    /\ db = EmptyDb
    /\ blocked_ips = << >>
    /\ allowed_ips = << >>
    /\ cache = << >>
    /\ requests = [t \in Threads |-> Idle]
    /\ history = NoHistory

UploadFileCall(c, u) ==
    /\ u.n <= MaxUuid
    /\ store' = u.store
    /\ uuid_count' = u.n
    /\ last' = [op |-> "upload_file", file |-> c.file, event_id |-> c.event_id,
                file_type |-> c.file_type, process_image |-> c.process_image,
                env |-> c.env, raised |-> u.raised, exc |-> u.exc,
                result |-> u.result, trace |-> u.trace,
                upload |-> u.upload, sign |-> u.sign,
                path_parts |-> u.path_parts, path |-> u.path,
                content |-> u.content, picture |-> u.picture,
                pre_store |-> store]
    /\ UNCHANGED << storage_type, storage_backend, db, middleware_vars >>

UploadFile ==
    \E c \in UploadCalls :
    \E u \in { upload_file(media_manager, store, uuid_count, c.file, c.event_id,
                           c.file_type, c.process_image, c.env) } :
        /\ UploadFileCall(c, u)
        /\ UNCHANGED generated

BulkUploadCall(items, b) ==
    /\ b.n <= MaxUuid
    /\ store' = b.store
    /\ uuid_count' = b.n
    /\ last' = [op |-> "bulk_upload", items |-> items, event_id |-> None,
                file_type |-> "media", raised |-> b.raised,
                results |-> b.results, attempted |-> b.attempted,
                pre_store |-> store, pre_uuid |-> uuid_count]
    /\ UNCHANGED << storage_type, storage_backend, db, middleware_vars >>

BulkUpload ==
    \E items \in SeqsUpTo(BulkItems, MaxFiles) :
    \E b \in { bulk_upload(media_manager, store, uuid_count, items, None, "media") } :
        /\ BulkUploadCall(items, b)
        /\ UNCHANGED generated

\* validate_file called on its own
ValidateFile ==
    \E file \in Files :
    \E v \in { validate_file(file) } :
        /\ last' = [op |-> "validate_file", file |-> file, raised |-> v.raised,
                    result |-> [is_valid |-> v.is_valid, errors |-> v.errors,
                                file_info |-> v.file_info],
                    pos |-> v.pos]
        /\ UNCHANGED << storage_type, storage_backend, store, uuid_count, generated, db,
                        middleware_vars >>

DeletePaths ==
    DOMAIN store \cup {AbsentPath}
        \cup (IF last.op = "delete_file" THEN {last.file_path} ELSE {})

DeleteFile_fallback ==
    \E file_path \in DeletePaths, fault \in Faults :
        \E d \in { delete_file(media_manager, store, file_path, fault) } :
           /\ store' = d.store
           /\ last' = [op |-> "delete_file", file_path |-> file_path,
                       fault |-> fault, value |-> d.value, raised |-> d.raised,
                       adapter |-> d.adapter, pre_store |-> store]
           /\ storage_backend' = IF d.value THEN storage_backend ELSE "Local"
           /\ UNCHANGED << storage_type, uuid_count, generated, db,
                        middleware_vars >>

DeleteFile ==
    \E file_path \in DeletePaths, fault \in Faults :
        \E d \in { delete_file(media_manager, store, file_path, fault) } :
           /\ store' = d.store
           /\ last' = [op |-> "delete_file", file_path |-> file_path,
                       fault |-> fault, value |-> d.value, raised |-> d.raised,
                       adapter |-> d.adapter, pre_store |-> store]
           /\ UNCHANGED << storage_type, storage_backend, uuid_count, generated, db,
                        middleware_vars >>

GetSignedUrl ==
    \E file_path \in DOMAIN store \cup {AbsentPath}, fault \in Faults :
        \E g \in { get_signed_url(media_manager, file_path, default_expiration, fault) } :
           /\ last' = [op |-> "get_signed_url", file_path |-> file_path,
                       expiration |-> default_expiration, fault |-> fault,
                       value |-> g.value, raised |-> g.raised,
                       adapter |-> g.adapter]
           /\ UNCHANGED << storage_type, storage_backend, store, uuid_count, generated, db,
                        middleware_vars >>

Next ==
    \/ UploadFile
    \/ BulkUpload
    \/ DeleteFile
    \/ GetSignedUrl
    \/ ValidateFile

Spec == Init /\ [][Next]_vars

\* ------------------------------------------------------------------------
\* Uploads with the history of generated paths recorded
\* ------------------------------------------------------------------------
UploadFileRecorded ==
    \E c \in UploadCalls :
    \E u \in { upload_file(media_manager, store, uuid_count, c.file, c.event_id,
                           c.file_type, c.process_image, c.env) } :
        /\ UploadFileCall(c, u)
        /\ generated' = generated \o PathsOf(u)

BulkUploadRecorded ==
    \E items \in SeqsUpTo(BulkItems, MaxFiles) :
    \E b \in { bulk_upload(media_manager, store, uuid_count, items, None, "media") } :
        /\ BulkUploadCall(items, b)
        /\ generated' = generated \o b.generated

NextPaths ==
    \/ UploadFileRecorded
    \/ BulkUploadRecorded

SpecPaths == Init /\ [][NextPaths]_vars

\* ------------------------------------------------------------------------
\* add_watermark applied to images and text boxes of several sizes
\* ------------------------------------------------------------------------
AddWatermark ==
    \E image \in { Picture(w, h) : w \in {300, 2000, 4096}, h \in {300, 1000} },
       cfg \in { Watermark(e, t, tw, th, f) :
                   e \in BOOLEAN, t \in BOOLEAN, tw \in {130, 400, 2100},
                   th \in {11, 100}, f \in {"none", "error"} } :
    \E r \in { add_watermark(image, cfg) } :
        /\ last' = [op |-> "add_watermark", image |-> image, cfg |-> cfg,
                    raised |-> r.raised, result |-> r.image]
        /\ UNCHANGED << storage_type, storage_backend, store, uuid_count, generated, db,
                        middleware_vars >>

SpecWatermark == Init /\ [][AddWatermark]_vars

\* ------------------------------------------------------------------------
\* The media views over the database and the stored objects
\* ------------------------------------------------------------------------
User(staff, super, client) ==
    [is_staff |-> staff, is_superuser |-> super, event_client |-> client]
Staff == User(TRUE, FALSE, None)
Users ==
    { Staff, User(FALSE, TRUE, None), User(FALSE, FALSE, None),
      User(FALSE, FALSE, "E1"), User(FALSE, FALSE, "E2") }

\* a media type with rows, and one the views refuse
\* the first primary key and one that no row has
MediaIds == {1, MaxUuid + 1}
\* behaviour of the backend client while signing
SignFaults == {"none", "OtherError"}

\* a photo added through the admin site or PhotoViewSet: Photo.save stores
\* the image at photo_upload_path and inserts the row
CreatePhoto ==
    \E event \in Events :
        LET path == join(<< "events", event, "photos",
                            uuid4(uuid_count + 1) \o ".jpg" >>)
        IN /\ uuid_count < MaxUuid
           /\ uuid_count' = uuid_count + 1
           /\ store' = Put(store, path, "original")
           /\ db' = [next_id |-> db.next_id + 1,
                     rows |-> db.rows \cup { Row(db.next_id, "photo", path, event) }]
           /\ last' = [op |-> "create_photo", path |-> path, event |-> event]
           /\ UNCHANGED << storage_type, storage_backend, generated, middleware_vars >>

UploadRequests ==
    { [files |-> fs, event_id |-> None, file_type |-> "photo", user |-> Staff]
        : fs \in SeqsUpTo({ i \in BulkItems : i.file # NotMedia }, MaxFiles) }
      \cup { [files |-> << i >>, event_id |-> "E1", file_type |-> "photo",
               user |-> Staff] : i \in BulkItems }

UploadMedia ==
    \E req \in UploadRequests :
    \E r \in { upload_media(media_manager, store, uuid_count, db, req) } :
        /\ r.n <= MaxUuid
        /\ store' = r.store
        /\ uuid_count' = r.n
        /\ db' = r.db
        /\ last' = [op |-> "upload_media", req |-> req, status |-> r.status,
                    pre_store |-> store, pre_db |-> db]
        /\ UNCHANGED << storage_type, storage_backend, generated, middleware_vars >>

DeleteMedia ==
    \E user \in {Staff, User(FALSE, FALSE, "E1")}, media_type \in {"photo", "reel"},
       media_id \in MediaIds, fault \in Faults :
    \E r \in { views_delete_media(media_manager, store, db, user, media_type,
                                  media_id, fault) } :
        /\ store' = r.store
        /\ db' = r.db
        /\ last' = [op |-> "delete_media", user |-> user,
                    media_type |-> media_type, media_id |-> media_id,
                    fault |-> fault, status |-> r.status,
                    file_deleted |-> r.file_deleted, path |-> r.path,
                    pre_store |-> store, pre_db |-> db]
        /\ UNCHANGED << storage_type, storage_backend, uuid_count, generated,
                        middleware_vars >>

SignedUrlView ==
    \E user \in Users, media_type \in {"photo", "reel"}, media_id \in MediaIds,
       fault \in SignFaults :
    \E r \in { views_get_signed_url(media_manager, db, user, media_type, media_id,
                                    default_expiration, fault) } :
        /\ last' = [op |-> "views.get_signed_url", user |-> user,
                    media_type |-> media_type, media_id |-> media_id,
                    fault |-> fault, status |-> r.status,
                    signed_url |-> r.signed_url, signer |-> r.signer]
        /\ UNCHANGED << storage_type, storage_backend, store, uuid_count,
                        generated, db, middleware_vars >>

MediaInfo ==
    \E user \in Users, media_type \in {"photo", "reel"}, media_id \in MediaIds,
       fault \in SignFaults :
    \E r \in { views_media_info(media_manager, db, user, media_type, media_id,
                                fault) } :
        /\ last' = [op |-> "views.media_info", user |-> user,
                    media_type |-> media_type, media_id |-> media_id,
                    fault |-> fault, status |-> r.status,
                    signed_url |-> r.signed_url, signer |-> r.signer]
        /\ UNCHANGED << storage_type, storage_backend, store, uuid_count,
                        generated, db, middleware_vars >>

\* one storage_type setting for each backend the factory can build
InitViews == Init /\ storage_type \in {"local", "aws", "gcp"}

\* uploads and deletions through the views
NextViews ==
    \/ CreatePhoto
    \/ UploadMedia
    \/ DeleteMedia

SpecViews == InitViews /\ [][NextViews]_vars

\* access to the media that exist
NextAccess ==
    \/ CreatePhoto
    \/ DeleteMedia
    \/ SignedUrlView
    \/ MediaInfo

SpecAccess == InitViews /\ [][NextAccess]_vars

\* ------------------------------------------------------------------------
\* Requests passing through SecurityMiddleware, two at a time
\* ------------------------------------------------------------------------
Arrivals ==
    { [meta |-> [x_forwarded_for |-> << >>, remote_addr |-> "10.0.0.5"],
       is_staff |-> FALSE, path |-> "/api/auth/login/"],
      [meta |-> [x_forwarded_for |-> << >>, remote_addr |-> "10.0.0.5"],
       is_staff |-> FALSE, path |-> "/api/media/"],
      [meta |-> [x_forwarded_for |-> << "192.168.1.9", "10.0.0.5" >>,
                 remote_addr |-> "10.0.0.5"],
       is_staff |-> FALSE, path |-> "/api/auth/login/"],
      [meta |-> [x_forwarded_for |-> << >>, remote_addr |-> "10.0.0.5"],
       is_staff |-> TRUE, path |-> "/api/media/"] }

\* BLOCKED_IPS and ALLOWED_IPS of the deployments examined
IpSettings ==
    { [blocked |-> << >>, allowed |-> << >>],
      [blocked |-> << "office", "192.168.1.0/24" >>, allowed |-> << >>],
      [blocked |-> << "10.0.0.5/32" >>,
       allowed |-> << "10.0.0.0/8", "192.168.1.0/24" >>],
      [blocked |-> << >>, allowed |-> << "office", "192.168.1.0/24" >>] }

InitMiddleware ==
    /\ storage_type = "local"
    /\ storage_backend = get_storage_backend(storage_type)
    /\ store = EmptyStore
    /\ uuid_count = 0
    /\ last = [op |-> "init"]
    /\ generated = << >>
    /\ db = EmptyDb
    /\ \E cfg \in IpSettings :
          blocked_ips = cfg.blocked /\ allowed_ips = cfg.allowed
    /\ cache = << >>
    /\ requests = [t \in Threads |-> Idle]
    /\ history = NoHistory

\* the storage, the database and the settings, which no request changes
others == << storage_type, storage_backend, store, uuid_count, last, generated, db,
            blocked_ips, allowed_ips >>

Respond(t, status) ==
    requests' = [requests EXCEPT ![t].pc = "process_response", ![t].status = status]

\* a request reaches a worker; process_request starts
Arrive(t) ==
    \E a \in Arrivals :
        LET client_ip == get_client_ip(a.meta)
        IN /\ requests[t].pc = "idle"
           /\ history.arrived < MaxRequests
           /\ requests' = [requests EXCEPT ![t] =
                  [pc |-> "is_ip_allowed", client_ip |-> client_ip,
                   is_staff |-> a.is_staff, path |-> a.path,
                   current |-> 0, status |-> 0]]
           /\ history' = [history EXCEPT !.arrived = @ + 1]
           /\ UNCHANGED << cache, others >>

\* process_request: the IP filter
IpFilter(t) ==
    /\ requests[t].pc = "is_ip_allowed"
    /\ IF is_ip_allowed(blocked_ips, allowed_ips, requests[t].client_ip)
       THEN requests' = [requests EXCEPT ![t].pc = "check_rate_limit"]
       ELSE Respond(t, 403)
    /\ UNCHANGED << cache, history, others >>

\* check_rate_limit: staff users are not counted; cache.get
RateRead(t) ==
    /\ requests[t].pc = "check_rate_limit"
    /\ IF requests[t].is_staff
       THEN requests' = [requests EXCEPT ![t].pc = "is_account_locked"]
       ELSE requests' = [requests EXCEPT
               ![t].pc = "rate_limit_set",
               ![t].current = cache_get(cache, rate_limit_key(requests[t].client_ip), 0)]
    /\ UNCHANGED << cache, history, others >>

\* check_rate_limit: the comparison with the limit and cache.set
RateWrite(t) ==
    LET r == requests[t] IN
    /\ r.pc = "rate_limit_set"
    /\ IF r.current >= RATE_LIMIT_REQUESTS
       THEN /\ Respond(t, 429)
            /\ UNCHANGED << cache, history >>
       ELSE /\ cache' = cache_set(cache, rate_limit_key(r.client_ip), r.current + 1)
            /\ history' = [history EXCEPT !.admitted[r.client_ip] = @ + 1]
            /\ requests' = [requests EXCEPT ![t].pc = "is_account_locked"]
    /\ UNCHANGED others

\* process_request: the lockout check; an unlocked request goes to the view
LockCheck(t) ==
    /\ requests[t].pc = "is_account_locked"
    /\ IF is_account_locked(cache, requests[t].client_ip)
       THEN Respond(t, 423)
       ELSE requests' = [requests EXCEPT ![t].pc = "view"]
    /\ UNCHANGED << cache, history, others >>

\* the view answers; a login view answers 200 or 401
View(t) ==
    /\ requests[t].pc = "view"
    /\ \E status \in IF requests[t].path \in LoginPaths THEN {200, 401} ELSE {200} :
          Respond(t, status)
    /\ UNCHANGED << cache, history, others >>

\* process_response: a failed login reads the counter, a successful login
\* resets it, any other response passes
ProcessResponse(t) ==
    LET r == requests[t] IN
    /\ r.pc = "process_response"
    /\ IF r.path \in LoginPaths /\ r.status = 401
       THEN /\ requests' = [requests EXCEPT
                   ![t].pc = "track_failed_attempt",
                   ![t].current = cache_get(cache, failed_attempts_key(r.client_ip), 0)]
            /\ UNCHANGED << cache, history >>
       ELSE IF r.path \in LoginPaths /\ r.status = 200
       THEN /\ cache' = reset_failed_attempts(cache, r.client_ip)
            /\ history' = [history EXCEPT !.failures[r.client_ip] = 0]
            /\ requests' = [requests EXCEPT ![t] = Idle]
       ELSE /\ requests' = [requests EXCEPT ![t] = Idle]
            /\ UNCHANGED << cache, history >>
    /\ UNCHANGED others

\* track_failed_attempt: the two cache.set calls
TrackWrite(t) ==
    LET r == requests[t] IN
    /\ r.pc = "track_failed_attempt"
    /\ cache' = track_failed_attempt_write(cache, r.client_ip, r.current)
    /\ history' = [history EXCEPT !.failures[r.client_ip] = @ + 1]
    /\ requests' = [requests EXCEPT ![t] = Idle]
    /\ UNCHANGED others

\* the timeout of a cache entry elapses
Expire ==
    \E a \in Addresses, key \in DOMAIN cache :
        /\ cache' = cache_delete(cache, key)
        /\ \/ /\ key = rate_limit_key(a)
              /\ history' = [history EXCEPT !.admitted[a] = 0]
           \/ /\ key \in {failed_attempts_key(a), locked_key(a)}
              /\ history' = [history EXCEPT !.failures[a] = 0]
        /\ UNCHANGED << requests, others >>

NextMiddleware ==
    \/ \E t \in Threads : Arrive(t)
    \/ \E t \in Threads : IpFilter(t)
    \/ \E t \in Threads : RateRead(t)
    \/ \E t \in Threads : RateWrite(t)
    \/ \E t \in Threads : LockCheck(t)
    \/ \E t \in Threads : View(t)
    \/ \E t \in Threads : ProcessResponse(t)
    \/ \E t \in Threads : TrackWrite(t)
    \/ Expire

SpecMiddleware == InitMiddleware /\ [][NextMiddleware]_vars

\* ------------------------------------------------------------------------
\* Event access: Event.is_expired, EventViewSet.verify_access and
\* EventLoginView.post.  Dates are day numbers; an unset expiry_date is the
\* empty sequence, a set one a sequence of one day.
\* ------------------------------------------------------------------------
DEFAULT_ALBUM_EXPIRY_DAYS == 90

Event(event_id, protected, password, event_date, expiry_date) ==
    [event_id |-> event_id, is_password_protected |-> protected,
     password |-> password, event_date |-> event_date,
     expiry_date |-> expiry_date]

\* faulty variant: an event without expiry date never expires
is_expired_no_default(event, today) ==
    IF event.expiry_date = << >> THEN FALSE
    ELSE today > event.expiry_date[1]

is_expired(event, today) ==
    IF event.expiry_date = << >>
    THEN today > event.event_date + DEFAULT_ALBUM_EXPIRY_DAYS
    ELSE today > event.expiry_date[1]


\* the two checks both views make on the event they found
check_event(event, password, today) ==
    IF event.is_password_protected /\ event.password # password
    THEN [status |-> 401, access_granted |-> FALSE]
    ELSE IF is_expired(event, today)
    THEN [status |-> 403, access_granted |-> FALSE]
    ELSE [status |-> 200, access_granted |-> TRUE]

\* verify_access: the event is looked up by primary key
verify_access(table, pk, password, today) ==
    IF pk \notin DOMAIN table THEN [status |-> 404, access_granted |-> FALSE]
    ELSE check_event(table[pk], password, today)

\* EventLoginView.post: the event is looked up by its unique event_id
EventLoginView_post(table, event_id, password, today) ==
    LET found == { pk \in DOMAIN table : table[pk].event_id = event_id }
    IN IF found = {} THEN [status |-> 401, access_granted |-> FALSE]
       ELSE check_event(table[CHOOSE pk \in found : TRUE], password, today)

EventTables ==
    { << Event("EVT1", protected, password, 0, expiry_date) >> :
        protected \in BOOLEAN, password \in {None, "secret"},
        expiry_date \in {<< >>, << 100 >>} }

VerifyAccess ==
    \E table \in EventTables, pk \in {1, 2},
       password \in {None, "secret", "guess"}, today \in {90, 91, 100, 101} :
        /\ last' = [op |-> "verify_access", table |-> table, pk |-> pk,
                    event_id |-> IF pk \in DOMAIN table THEN table[pk].event_id
                                 ELSE "EVT2",
                    password |-> password, today |-> today,
                    response |-> verify_access(table, pk, password, today)]
        /\ UNCHANGED << storage_type, storage_backend, store, uuid_count,
                        generated, db, middleware_vars >>

EventLogin ==
    \E table \in EventTables, event_id \in {"EVT1", "EVT2"},
       password \in {"secret", "guess"}, today \in {90, 91, 100, 101} :
        /\ last' = [op |-> "event_login", table |-> table,
                    pk |-> IF event_id = "EVT1" THEN 1 ELSE 2,
                    event_id |-> event_id,
                    password |-> password, today |-> today,
                    response |-> EventLoginView_post(table, event_id, password, today)]
        /\ UNCHANGED << storage_type, storage_backend, store, uuid_count,
                        generated, db, middleware_vars >>

NextEvents == VerifyAccess \/ EventLogin
SpecEvents == Init /\ [][NextEvents]_vars

\* ------------------------------------------------------------------------
\* Properties of upload_file
\* ------------------------------------------------------------------------
IsUpload == last.op = "upload_file"
Validation == validate_file(last.file)
UploadFailed ==
    last.upload.called /\ (last.upload.raised \/ ~last.upload.value)
SignReturnedNull ==
    last.sign.called /\ ~last.sign.raised /\ last.sign.value = None
SignFailed ==
    last.sign.called /\ (last.sign.raised \/ last.sign.value = None)
ProcessFailed ==
    /\ Validation.is_valid
    /\ Validation.file_info.is_image /\ last.process_image
    /\ process_image(last.file, last.env.watermark).raised
FailureResult ==
    /\ ~last.result.success
    /\ last.result.errors # << >>

\* C1: when validate_file reports is_valid = false, upload_file returns
\* {success: false, errors} with exactly the validator's error list, calls
\* neither storage_backend.upload_file nor storage_backend.get_signed_url, and
\* leaves the stored objects unchanged.
C1_InvalidFileRejected ==
    (IsUpload /\ ~Validation.is_valid) =>
        /\ ~last.raised
        /\ last.result = [success |-> FALSE, errors |-> Validation.errors]
        /\ ~last.upload.called
        /\ ~last.sign.called
        /\ store = last.pre_store

\* an invalid file was refused while the storage already held an object
C1_Witness ==
    /\ IsUpload
    /\ ~Validation.is_valid
    /\ Validation.errors # << >>
    /\ last.result.errors = Validation.errors
    /\ DOMAIN store # {}

\* C2 as stated: upload_file never raises, and every failure of the
\* validator, the processor, the storage upload or the URL signing gives a
\* result with success = false and a non-empty errors list.
C2_Original ==
    IsUpload =>
        /\ ~last.raised
        /\ (~Validation.is_valid \/ ProcessFailed \/ UploadFailed \/ SignFailed)
              => FailureResult

\* C2 amended: upload_file never raises; every failure of the validator, the
\* processor or the storage upload, and every exception raised while signing,
\* gives success = false with a non-empty errors list; when get_signed_url
\* returns null the upload still succeeds and signed_url is null.
C2_Amended ==
    IsUpload =>
        /\ ~last.raised
        /\ (~Validation.is_valid \/ ProcessFailed \/ UploadFailed
                \/ (last.sign.called /\ last.sign.raised))
              => FailureResult
        /\ SignReturnedNull =>
              (last.result.success /\ last.result.signed_url = None)

\* an exception from a stage was caught and turned into a failure result
C2_Witness ==
    /\ IsUpload
    /\ last.exc # None
    /\ ~last.raised
    /\ FailureResult

\* C3: when validation passes and the storage adapter's upload fails,
\* upload_file returns success = false with errors exactly
\* ['Failed to upload file to storage backend'], on every storage variant and
\* for every kind of backend failure.
C3_UploadFailureMessage ==
    (IsUpload /\ Validation.is_valid /\ last.upload.called
        /\ last.env.upload # "none") =>
        last.result = [success |-> FALSE,
                       errors |-> << "Failed to upload file to storage backend" >>]

\* C4: the stages run in the order validate, process (images only), storage
\* upload, get_signed_url; get_signed_url is called only after the storage
\* upload returned true; success = true exactly when validation passed and
\* the storage upload returned true, and then the result carries file_path,
\* file_info and signed_url.
StageOrders ==
    { << "validate_file" >>,
      << "validate_file", "generate_file_path", "process_image" >>,
      << "validate_file", "generate_file_path", "storage.upload_file" >>,
      << "validate_file", "generate_file_path", "process_image",
         "storage.upload_file" >>,
      << "validate_file", "generate_file_path", "storage.upload_file",
         "storage.get_signed_url" >>,
      << "validate_file", "generate_file_path", "process_image",
         "storage.upload_file", "storage.get_signed_url" >> }

UploadReturnedTrue ==
    last.upload.called /\ ~last.upload.raised /\ last.upload.value

C4_StageOrder ==
    IsUpload =>
        /\ last.trace \in StageOrders
        /\ (\E i \in 1..Len(last.trace) : last.trace[i] = "process_image")
              => Validation.file_info.is_image
        /\ last.sign.called => UploadReturnedTrue
        /\ last.result.success <=> (Validation.is_valid /\ UploadReturnedTrue)
        /\ last.result.success =>
              {"file_path", "file_info", "signed_url"} \subseteq DOMAIN last.result

\* ------------------------------------------------------------------------
\* Properties of bulk_upload
\* ------------------------------------------------------------------------
IsBulk == last.op = "bulk_upload"

\* the outcome upload_file gives for the i-th file alone, from the state the
\* batch started in
Alone(i) ==
    upload_file(media_manager, last.pre_store, last.pre_uuid, last.items[i].file,
                last.event_id, last.file_type, TRUE, last.items[i].env).result

RECURSIVE Indices(_, _)
Indices(k, n) == IF k > n THEN << >> ELSE << k >> \o Indices(k + 1, n)

AloneFails(i) == ~Alone(i).success
AloneSucceeds(i) == Alone(i).success

\* C5: bulk_upload returns total_files equal to the number of inputs,
\* success_count = len(successful_uploads), error_count = len(failed_uploads),
\* success_count + error_count = total_files, and every input file is
\* attempted even when earlier files fail.
C5_BulkCounts ==
    IsBulk =>
        /\ ~last.raised
        /\ last.results.total_files = Len(last.items)
        /\ last.results.success_count = Len(last.results.successful_uploads)
        /\ last.results.error_count = Len(last.results.failed_uploads)
        /\ last.results.success_count + last.results.error_count
              = last.results.total_files
        /\ last.attempted
              = [i \in 1..Len(last.items) |-> NameStr(last.items[i].file.name)]

\* a batch whose first file failed and whose second file was stored
C5_Witness ==
    /\ IsBulk
    /\ Len(last.items) = 2
    /\ last.results.error_count = 1
    /\ last.results.success_count = 1
    /\ AloneFails(1)
    /\ Len(last.attempted) = 2
    /\ DOMAIN store # DOMAIN last.pre_store

\* C6: failed_uploads holds exactly one entry, with the file's name and the
\* errors of its single upload, for each input file whose single upload
\* fails, in input order, and successful_uploads one entry for each file
\* whose single upload succeeds, whatever the other files of the batch do.
C6_BulkIsolation ==
    IsBulk =>
        LET idx == Indices(1, Len(last.items))
            failing == SelectSeq(idx, AloneFails)
            succeeding == SelectSeq(idx, AloneSucceeds)
        IN /\ last.results.failed_uploads
                = [j \in 1..Len(failing) |->
                     [file_name |-> NameStr(last.items[failing[j]].file.name),
                      errors |-> Alone(failing[j]).errors]]
           /\ Len(last.results.successful_uploads) = Len(succeeding)
           /\ \A j \in 1..Len(succeeding) :
                 last.results.successful_uploads[j].file_name
                    = NameStr(last.items[succeeding[j]].file.name)

\* a batch with two failing files of different causes
C6_Witness ==
    /\ IsBulk
    /\ Len(last.items) = 2
    /\ AloneFails(1) /\ AloneFails(2)
    /\ Alone(1).errors # Alone(2).errors
    /\ Len(last.results.failed_uploads) = 2

\* ------------------------------------------------------------------------
\* Properties of the storage adapters
\* ------------------------------------------------------------------------
\* C7: on every storage variant upload_file(file, path) returns false and
\* does not raise on any backend error.
C7_AdapterUploadNeverRaises ==
    (IsUpload /\ last.upload.called /\ last.env.upload # "none") =>
        (~last.upload.raised /\ ~last.upload.value)

\* C8: on every storage variant, deleting a path that holds no object
\* returns true and leaves the storage unchanged, and false is returned only
\* on a genuine backend failure.
C8_DeleteIdempotent ==
    last.op = "delete_file" =>
        /\ (last.file_path \notin DOMAIN last.pre_store /\ last.fault = "none")
              => (~last.adapter.raised /\ last.adapter.value
                    /\ store = last.pre_store)
        /\ (~last.adapter.raised /\ ~last.adapter.value)
              => last.fault # "none"

\* C9: on every storage variant get_signed_url returns null instead of
\* raising when the provider's signing call fails, whatever the failure.
SignCall ==
    IF last.op = "get_signed_url"
    THEN [called |-> TRUE, fault |-> last.fault, r |-> last.adapter]
    ELSE IF IsUpload /\ last.sign.called
    THEN [called |-> TRUE, fault |-> last.env.sign, r |-> last.sign]
    ELSE [called |-> FALSE]

C9_SignReturnsNullOnFailure ==
    (SignCall.called /\ SignCall.fault # "none" /\ storage_backend # "Local") =>
        (~SignCall.r.raised /\ SignCall.r.value = None)

\* C10: storage_type 's3' and 'do' select the S3-compatible variant, 'gcs'
\* the GCS variant and 'local' the Local variant.
C10_BackendSelection ==
    /\ storage_type \in {"s3", "do"} => storage_backend = "S3"
    /\ storage_type = "gcs" => storage_backend = "GCS"
    /\ storage_type = "local" => storage_backend = "Local"

\* ------------------------------------------------------------------------
\* Properties of the manager's construction and of generate_file_path
\* ------------------------------------------------------------------------
\* C11: the storage backend is chosen once, when the manager is constructed;
\* validate_file, upload_file, bulk_upload, delete_file and get_signed_url
\* all leave the manager bound to the same backend object.
C11_BackendFixed ==
    [][storage_backend' = storage_backend]_vars

\* the manager has uploaded and then failed to delete on a cloud backend
C11_Witness ==
    /\ last.op = "delete_file"
    /\ ~last.value
    /\ store # EmptyStore
    /\ storage_backend # "Local"

Segments == {4, 5}
UuidValues == { uuid4(n) : n \in 0..MaxUuid + 1 }
PathGenerated == IsUpload /\ last.path # None

\* C12 as stated: a generated path always has five segments, the third
\* being the event id or the literal "none" when no event id is given.
C12_Original ==
    PathGenerated =>
        /\ Len(last.path_parts) = 5
        /\ last.path_parts[3]
              = (IF last.event_id # None THEN last.event_id ELSE "none")

\* C12 amended: with an event id the path is
\* {year}/{month}/{event_id}/{media_type}/{uuid}{ext} (five segments);
\* without one the event segment is left out and the path is
\* {year}/{month}/{media_type}/{uuid}{ext} (four segments); the extension
\* is the lowercased extension of the declared file name.
C12_Amended ==
    PathGenerated =>
        \E u \in UuidValues :
            LET ext == lower("." \o last.file.name.ext)
                head == now_year \o "/" \o now_month \o "/"
                tail == last.file_type \o "/" \o u \o ext
            IN /\ Len(last.path_parts) \in Segments
               /\ last.event_id # None =>
                     /\ Len(last.path_parts) = 5
                     /\ last.path = head \o last.event_id \o "/" \o tail
               /\ last.event_id = None =>
                     /\ Len(last.path_parts) = 4
                     /\ last.path = head \o tail

\* a path generated without an event id for a file named with an
\* upper-case extension
C12_Witness ==
    /\ PathGenerated
    /\ last.event_id = None
    /\ last.file.name.ext = "JPG"
    /\ Len(last.path_parts) = 4

NoDuplicates(seq) ==
    \A i, j \in 1..Len(seq) : i # j => seq[i] # seq[j]

SuccessfulPaths ==
    [j \in 1..Len(last.results.successful_uploads) |->
        last.results.successful_uploads[j].file_path]

\* C13: over any sequence of upload_file and bulk_upload calls every
\* generated path differs from all the paths generated before it, also for
\* identical file name, event id and file type; every object that is stored
\* goes to a path that held no object, so no upload overwrites an earlier one.
C13_PathsDistinct ==
    /\ NoDuplicates(generated)
    /\ \A p \in DOMAIN store : \E i \in 1..Len(generated) : generated[i] = p
    /\ (IsUpload /\ last.upload.called) =>
          /\ last.path \notin DOMAIN last.pre_store
          /\ generated[Len(generated)] = last.path
    /\ IsBulk =>
          /\ NoDuplicates(SuccessfulPaths)
          /\ \A j \in 1..Len(SuccessfulPaths) :
                SuccessfulPaths[j] \notin DOMAIN last.pre_store

\* two uploads with the same file name, event id and file type are stored
\* side by side
C13_Witness ==
    /\ Len(generated) = 2
    /\ DOMAIN store = { now_year \o "/" \o now_month \o "/media/" \o uuid4(k) \o ".jpg"
                          : k \in {1, 2} }

\* ------------------------------------------------------------------------
\* Properties of validate_file
\* ------------------------------------------------------------------------
IsValidate == last.op = "validate_file"
Named == last.file.name.stem # None
Reported(m) ==
    \E i \in 1..Len(last.result.errors) : last.result.errors[i] = m
SizeMessage == "File size exceeds maximum limit of 100.0MB"
TypeMessage == "File must be an image or video"
DimensionMessage == "Image dimensions exceed maximum size of 4096x4096"
ImageExtensions == {"jpg", "jpeg", "png", "webp", "bmp"}
VideoExtensions == {"mp4", "mov", "avi", "mkv", "webm"}
LimitBytes == 100 * 1024 * 1024
LimitPixels == 4096

\* C14: a file whose declared size exceeds the maximum (100 MB) is
\* rejected with the size message, whatever its name, type or content.
C14_OversizeRejected ==
    (IsValidate /\ last.file.size > LimitBytes) =>
        (~last.result.is_valid /\ Reported(SizeMessage))

\* an oversized file that is not media either
C14_Witness ==
    /\ IsValidate
    /\ last.file.size > LimitBytes
    /\ last.file.name.ext = "exe"
    /\ Reported(SizeMessage)

\* C15: validate_file never raises and returns a result whose is_valid is
\* false exactly when errors is non-empty.
C15_ValidateNeverRaises ==
    IsValidate =>
        /\ ~last.raised
        /\ ~last.result.is_valid <=> last.result.errors # << >>

\* a file without a name makes os.path.splitext raise inside validate_file
C15_Witness ==
    /\ IsValidate
    /\ ~Named
    /\ ~last.raised
    /\ ~last.result.is_valid

\* C16: when validate_file returns the file's read cursor is at position 0,
\* whatever the outcome.
C16_CursorAtStart ==
    IsValidate => last.pos = 0

\* C17: validate_file accepts only files with an image extension that are
\* classified as image or a video extension that are classified as video; a
\* file whose MIME type is neither image nor video is rejected with
\* 'File must be an image or video'.
C17_TypeGate ==
    (IsValidate /\ Named) =>
        LET mime == guess_type(last.file.name)
            image == startswith_image(mime)
            video == startswith_video(mime)
        IN /\ last.result.is_valid =>
                \/ image /\ last.result.file_info.extension \in ImageExtensions
                \/ video /\ last.result.file_info.extension \in VideoExtensions
           /\ (~image /\ ~video) =>
                (~last.result.is_valid /\ Reported(TypeMessage))

\* an executable of acceptable size is rejected for its type alone
C17_Witness ==
    /\ IsValidate
    /\ last.file.name.ext = "exe"
    /\ last.result.errors = << TypeMessage >>

Decoded == Named /\ last.file.decode = "ok"
    /\ startswith_image(guess_type(last.file.name))
TooLarge == last.file.width > LimitPixels \/ last.file.height > LimitPixels

\* C18 as stated: every image wider or higher than 4096 pixels is rejected
\* with the dimension message, next to the message of every other check it
\* violates.
C18_Original ==
    (IsValidate /\ Decoded /\ TooLarge) =>
        /\ ~last.result.is_valid
        /\ Reported(DimensionMessage)
        /\ last.file.size > LimitBytes => Reported(SizeMessage)

\* C18 amended: an image that passes the size and type checks and is wider
\* or higher than 4096 pixels is rejected with the dimension message; the
\* messages of the size and type checks accumulate; an image the size or
\* type check has rejected is not opened and gets no dimension message.
C18_Amended ==
    /\ (IsValidate /\ Decoded /\ TooLarge) =>
          /\ ~last.result.is_valid
          /\ (last.file.size <= LimitBytes
                /\ lower(last.file.name.ext) \in ImageExtensions)
                => last.result.errors = << DimensionMessage >>
          /\ last.file.size > LimitBytes
                => (Reported(SizeMessage) /\ ~Reported(DimensionMessage))
    /\ (IsValidate /\ Named /\ last.file.size > LimitBytes
           /\ ~startswith_image(guess_type(last.file.name))
           /\ ~startswith_video(guess_type(last.file.name))) =>
          last.result.errors = << SizeMessage, TypeMessage >>

\* an image of acceptable file size that is one pixel too wide
C18_Witness ==
    /\ IsValidate
    /\ Decoded
    /\ last.file.width = LimitPixels + 1
    /\ last.file.size <= LimitBytes
    /\ last.result.errors = << DimensionMessage >>

\* ------------------------------------------------------------------------
\* Properties of the processing stage of upload_file
\* ------------------------------------------------------------------------
Stored == IsUpload /\ last.upload.called /\ ~last.upload.raised /\ last.upload.value
IsImageUpload == Validation.is_valid /\ Validation.file_info.is_image
IsVideoUpload == Validation.is_valid /\ Validation.file_info.is_video
Processed ==
    \E i \in 1..Len(last.trace) : last.trace[i] = "process_image"

\* C19 as stated: every image upload_file stores has been re-encoded as
\* JPEG, for every combination of the arguments.
C19_Original ==
    (Stored /\ IsImageUpload) =>
        (last.content = "jpeg" /\ store[last.path] = "jpeg")

\* C19 amended: with process_image true (the default, and the value
\* bulk_upload passes) every image that is stored has been re-encoded as
\* JPEG; with process_image false the image goes to the adapter with its
\* original bytes.
C19_Amended ==
    /\ (Stored /\ IsImageUpload) =>
          /\ store[last.path] = last.content
          /\ last.process_image => (Processed /\ last.content = "jpeg")
          /\ ~last.process_image => (~Processed /\ last.content = "original")
    /\ IsBulk =>
          \A j \in 1..Len(last.results.successful_uploads) :
              LET r == last.results.successful_uploads[j]
              IN r.file_info.is_image => store[r.file_path] = "jpeg"

\* an image stored after processing
C19_Witness ==
    /\ Stored
    /\ IsImageUpload
    /\ last.process_image
    /\ store[last.path] = "jpeg"

\* C20: for a valid video the processor is not called, the adapter receives
\* the original bytes and file_info carries the size of the original file.
C20_VideoUntouched ==
    (IsUpload /\ IsVideoUpload) =>
        /\ ~Processed
        /\ last.upload.called
        /\ last.content = "original"
        /\ Stored => store[last.path] = "original"
        /\ (~last.raised /\ last.result.success) =>
              last.result.file_info.size = last.file.size

\* a video uploaded with process_image true
C20_Witness ==
    /\ IsUpload
    /\ IsVideoUpload
    /\ last.process_image
    /\ ~last.raised
    /\ last.result.success
    /\ store[last.path] = "original"

\* ------------------------------------------------------------------------
\* Properties of watermarking
\* ------------------------------------------------------------------------
ProcessedUpload ==
    /\ IsUpload
    /\ IsImageUpload
    /\ last.process_image
    /\ last.file.decode = "ok"
BackendHealthy == last.env.upload = "none" /\ last.env.sign = "none"

\* C21: an exception inside add_watermark does not fail the upload: the
\* unwatermarked image is processed and uploaded as if watermarking were
\* off; with watermarking disabled the image is left unchanged.
C21_WatermarkNonFatal ==
    ProcessedUpload =>
        /\ (last.env.watermark.enabled /\ last.env.watermark.fault # "none") =>
              /\ Processed
              /\ last.upload.called
              /\ last.picture = Picture(last.file.width, last.file.height)
              /\ BackendHealthy => (~last.raised /\ last.result.success)
        /\ ~last.env.watermark.enabled =>
              last.picture = Picture(last.file.width, last.file.height)

\* an upload that succeeds although drawing the watermark failed
C21_Witness ==
    /\ ProcessedUpload
    /\ last.env.watermark.enabled
    /\ last.env.watermark.fault = "error"
    /\ last.result.success
    /\ last.picture.mark = NoMark

IsWatermark == last.op = "add_watermark"
Drawn == IsWatermark /\ last.cfg.enabled /\ last.cfg.fault = "none"
Padding == 20

\* C23 as stated: the text is placed at (width - text_width - 20,
\* height - text_height - 20) in a font of size
\* max(20, min(width, height) div 20).
C23_Original ==
    Drawn =>
        /\ last.result.mark.drawn
        /\ last.result.mark.x = last.image.width - last.cfg.text_width - Padding
        /\ last.result.mark.y = last.image.height - last.cfg.text_height - Padding
        /\ last.result.mark.font
              = [truetype |-> TRUE,
                 size |-> Max(20, Min(last.image.width, last.image.height) \div 20)]

\* C23 amended: the position is as stated; the font is arial.ttf at size
\* max(20, min(width, height) div 20) when that font can be loaded, and the
\* default font, which is not given that size, when it cannot.
C23_Amended ==
    Drawn =>
        /\ last.result.mark.drawn
        /\ last.result.mark.x = last.image.width - last.cfg.text_width - Padding
        /\ last.result.mark.y = last.image.height - last.cfg.text_height - Padding
        /\ last.image.width = 2000 =>
              last.result.mark.x = 2000 - last.cfg.text_width - 20
        /\ last.cfg.truetype =>
              last.result.mark.font
                 = [truetype |-> TRUE,
                    size |-> Max(20, Min(last.image.width, last.image.height) \div 20)]
        /\ ~last.cfg.truetype => last.result.mark.font = [truetype |-> FALSE]

\* the text drawn on a 2000x1000 image in arial.ttf at size 50
C23_Witness ==
    /\ Drawn
    /\ last.image = Picture(2000, 1000)
    /\ last.cfg.truetype
    /\ last.result.mark.font.size = 50
    /\ last.result.mark.x = 1980 - last.cfg.text_width

\* ------------------------------------------------------------------------
\* Stored objects and failed uploads
\* ------------------------------------------------------------------------
\* C24: when upload_file returns success=false no object has been written
\* at the path generated for that call.
C24_NoOrphanObject ==
    (IsUpload /\ ~last.raised /\ ~last.result.success /\ last.path # None) =>
        last.path \notin DOMAIN store

\* ------------------------------------------------------------------------
\* Properties of the media views
\* ------------------------------------------------------------------------
IsUploadMedia == last.op = "upload_media"
NewObjects == (DOMAIN store) \ (DOMAIN last.pre_store)
NewRows == db.rows \ last.pre_db.rows

\* C22: after upload_media has handled a request a row has been created
\* for each file that was stored, and for no other: the rows created are as
\* many as the objects stored and each row carries the path of its object.
C22_RowPerStoredFile ==
    IsUploadMedia =>
        /\ Cardinality(NewRows) = Cardinality(NewObjects)
        /\ \A p \in NewObjects : \E r \in NewRows : r.path = p
        /\ \A r \in NewRows : r.path \in NewObjects

\* C25: after delete_media has answered with success neither the row nor
\* the stored object of that media exists.
C25_DeleteRemovesBoth ==
    (last.op = "delete_media" /\ last.status = 200) =>
        /\ Lookup(db, last.media_type, last.media_id) = {}
        /\ last.path \notin DOMAIN store

IsUrlView == last.op \in {"views.get_signed_url", "views.media_info"}
Requested == Lookup(db, last.media_type, last.media_id)
Entitled(user, row) ==
    \/ user.is_staff
    \/ user.is_superuser
    \/ (user.event_client # None /\ row.event # None
           /\ user.event_client = row.event)

\* C26: get_signed_url and media_info hand out a signed URL only to staff,
\* superusers and the event client of the event that owns the media; any
\* other user gets 403 and the signer is not called.
C26_SignedUrlAccess ==
    IsUrlView =>
        /\ last.signed_url # None =>
              \E row \in Requested : Entitled(last.user, row)
        /\ last.signer.called =>
              \E row \in Requested : Entitled(last.user, row)
        /\ \A row \in Requested :
              ~Entitled(last.user, row) =>
                 (last.status = 403 /\ ~last.signer.called
                    /\ last.signed_url = None)

\* the client of another event is refused the URL of an existing photo
C26_Witness ==
    /\ IsUrlView
    /\ last.status = 403
    /\ last.user.event_client # None
    /\ \E row \in Requested : row.event # last.user.event_client

\* ------------------------------------------------------------------------
\* Properties of SecurityMiddleware
\* ------------------------------------------------------------------------
\* C27: while the rate_limit entry of an address is alive at most
\* RATE_LIMIT_REQUESTS of its non-staff requests are admitted, however the
\* requests interleave.
C27_RateLimit ==
    \A a \in Addresses : history.admitted[a] <= RATE_LIMIT_REQUESTS

\* C28: an address that has produced MAX_FAILED_ATTEMPTS failed logins
\* without a successful one in between, and whose entries have not expired,
\* is locked.
C28_Lockout ==
    \A a \in Addresses :
        history.failures[a] >= MAX_FAILED_ATTEMPTS =>
            is_account_locked(cache, a)

InAny(networks, client_ip) ==
    \E i \in DOMAIN networks : client_ip \in Members(networks[i])
Denied(client_ip) ==
    \/ InAny(blocked_ips, client_ip)
    \/ allowed_ips # << >> /\ ~InAny(allowed_ips, client_ip)

\* C29: the IP filter answers 403 exactly to an address that is in a blocked
\* network, whether or not it is also in an allowed one, or that is in no
\* allowed network when the allow list is not empty; and a request answered
\* 403 by the filter leaves every cache entry, the rate-limit counters and
\* the lockout state included, as it was, up to the end of the request.
C29_IpFilter ==
    [][\A t \in Threads :
          LET r == requests[t]
              after == requests'[t]
          IN /\ (r.pc = "is_ip_allowed" /\ after # r) =>
                    /\ (after.status = 403) <=> Denied(r.client_ip)
                    /\ Denied(r.client_ip) =>
                          cache' = cache /\ after.pc = "process_response"
             /\ (r.status = 403 /\ after # r) =>
                    cache' = cache /\ after = Idle]_vars

\* a request from an address in both lists is answered 403 while another
\* address has a rate-limit counter
C29_Witness ==
    \E t \in Threads :
        /\ requests[t].status = 403
        /\ InAny(blocked_ips, requests[t].client_ip)
        /\ InAny(allowed_ips, requests[t].client_ip)
        /\ cache # << >>

\* ------------------------------------------------------------------------
\* Properties of event access
\* ------------------------------------------------------------------------
IsEventAccess == last.op \in {"verify_access", "event_login"}
Exists == last.pk \in DOMAIN last.table
PasswordOk ==
    LET event == last.table[last.pk]
    IN event.is_password_protected => event.password = last.password
Expired ==
    LET event == last.table[last.pk]
    IN IF event.expiry_date = << >> THEN last.today > event.event_date + 90
       ELSE last.today > event.expiry_date[1]

====
